---- MODULE Spec2Model ----
(***************************************************************************)
(* A model of timm/models/flash_intern_image.py: the FlashInternImage      *)
(* backbone, its DCNv3 pure-pytorch deformable-convolution operator, the    *)
(* checkpoint filter and the registered variant constructors.               *)
(*                                                                          *)
(* Tensors are modelled by their shapes (tuples of naturals) wherever the   *)
(* code only moves data around, and by their integer contents in the        *)
(* sampling operator.  Three specifications share the module:               *)
(*   Spec        the life of one FlashInternImage object                    *)
(*   SpecDCN     DCNv3_pytorch construction and dcnv3_core_pytorch          *)
(*   SpecFilter  checkpoint_filter_fn                                       *)
(***************************************************************************)
EXTENDS Integers, Sequences, FiniteSets, TLC

VARIABLES
    dcn_version,   \* module global set at import (lines 36-40)
    model,         \* the FlashInternImage object, or NoModel
    warnings,      \* texts passed to warnings.warn so far
    raised,        \* exception raised by the last operation, "none" if it returned
    result,        \* what the last operation returned
    build_call,    \* arguments of the last build_model_with_cfg call
    dcn,           \* SpecDCN: the DCNv3_pytorch object and the last sampling call
    filt           \* SpecFilter: input and outcome of checkpoint_filter_fn

vars == <<dcn_version, model, warnings, raised, result, build_call, dcn, filt>>

-----------------------------------------------------------------------------
(* Bounds of the model *)

MaxBatch == 2
MaxClasses == 2
MaxEntries == 2
MaxChannels == 16
MaxGroup == 5

(* Program constants *)

DefaultChannels == 64
DefaultNumClasses == 1000
PretrainEmbedDim == 1024
ClipStride == 2
ClipEmbedDim == 768

-----------------------------------------------------------------------------
(* Small helpers *)

RECURSIVE Pow2(_)
Pow2(n) == IF n = 0 THEN 1 ELSE 2 * Pow2(n - 1)

RECURSIVE BitAnd(_, _)
BitAnd(a, b) ==
    IF a = 0 \/ b = 0 THEN 0
    ELSE (IF a % 2 = 1 /\ b % 2 = 1 THEN 1 ELSE 0) + 2 * BitAnd(a \div 2, b \div 2)

W_FALLBACK == "FlashInternImage requires DCNv4, but not found in current enviroment"
W_POW2 == "You'd better set channels in DCNv3 to make the dimension of each attention head a power of 2"
W_PRETRAINED == "DCNv4 is not installed, cannot load pretrained weights"

-----------------------------------------------------------------------------
(* DCNv3_pytorch.__init__ *)

\* _is_power_of_2 for a non-negative int: (n & (n - 1) == 0) and n != 0
is_power_of_2(n) == n # 0 /\ BitAnd(n, n - 1) = 0

\* a test that has the operands the wrong way round
DCNv3GroupError_Swapped(channels, group) == group % channels # 0

\* the divisibility test that guards construction (line 242)
DCNv3GroupError(channels, group) == channels % group # 0

DwNone == [given |-> FALSE]
DwSize(k) == [given |-> TRUE, value |-> k]

\* The constructor's outcome: the exception (or "none"), the warnings it
\* emitted and the fields it stored.
\* dw_kernel_size is None ([given |-> FALSE]) or a number (line 246).
DCNv3Init(channels, group, kernel_size, dw_kernel_size, stride, pad, dilation, offset_scale) ==
    IF DCNv3GroupError(channels, group)
    THEN [raised |-> "ValueError", warned |-> {}, obj |-> [exists |-> FALSE]]
    ELSE LET d_per_group == channels \div group
         IN  [raised |-> "none",
              warned |-> IF is_power_of_2(d_per_group) THEN {} ELSE {W_POW2},
              obj    |-> [exists         |-> TRUE,
                          kind           |-> "DCNv3_pytorch",
                          channels       |-> channels,
                          kernel_size    |-> kernel_size,
                          dw_kernel_size |-> IF dw_kernel_size.given
                                             THEN dw_kernel_size.value ELSE kernel_size,
                          stride         |-> stride,
                          dilation       |-> dilation,
                          pad            |-> pad,
                          group          |-> group,
                          group_channels |-> channels \div group,
                          offset_scale   |-> offset_scale]]

-----------------------------------------------------------------------------
(* InternImageLayer.__init__, InternImageBlock.__init__ *)

\* which deformable-convolution module a layer instantiates (lines 668-683)
LayerUsesDCNv4(dv, core_op) == dv = "DCNv4" /\ core_op = "DCNv4"

\* the keyword arguments that FlashInternImage hands down unchanged to every
\* InternImageLayer; layer_scale is None ([given |-> FALSE]) or a number
LayerOptions(a) ==
    [post_norm |-> a.post_norm, layer_scale |-> a.layer_scale,
     res_post_norm |-> a.res_post_norm, dw_kernel_size |-> a.dw_kernel_size]

\* the fields of a layer apart from self.dcn (lines 662-703): self.layer_scale
\* is the flag "layer_scale is not None", and the two res_post_norm modules
\* exist when res_post_norm is set
LayerFields(channels, groups, o, dcn_obj) ==
    [channels |-> channels, groups |-> groups,
     post_norm |-> o.post_norm,
     layer_scale |-> o.layer_scale.given,
     res_post_norm |-> o.res_post_norm,
     has_res_post_norms |-> o.res_post_norm,
     dcn |-> dcn_obj]

\* DCNv4.DCNv4 lives in the optional external package; only its identity
\* and the arguments handed to it are recorded.
InternImageLayerInit(dv, core_op, channels, groups, offset_scale, o) ==
    IF LayerUsesDCNv4(dv, core_op)
    THEN [raised |-> "none", warned |-> {},
          obj |-> LayerFields(channels, groups, o,
                              [exists |-> TRUE, kind |-> "DCNv4",
                               channels |-> channels, group |-> groups])]
    ELSE LET d == DCNv3Init(channels, groups, 3, o.dw_kernel_size, 1, 1, 1, offset_scale)
         IN  [raised |-> d.raised, warned |-> d.warned,
              obj |-> LayerFields(channels, groups, o, d.obj)]

\* The blocks of one level are built with the same arguments, so the first
\* layer decides whether the list comprehension raises.
InternImageBlockInit(dv, core_op, channels, depth, groups, downsample, offset_scale, o) ==
    LET layer == InternImageLayerInit(dv, core_op, channels, groups, offset_scale, o)
    IN  IF depth > 0 /\ layer.raised # "none"
        THEN [raised |-> layer.raised, warned |-> layer.warned, obj |-> [channels |-> channels]]
        ELSE [raised |-> "none",
              warned |-> IF depth > 0 THEN layer.warned ELSE {},
              obj |-> [channels        |-> channels,
                       depth           |-> depth,
                       post_norm       |-> o.post_norm,
                       grad_checkpoint |-> FALSE,
                       \* attribute that set_grad_checkpointing creates
                       grad_checkpointing |-> "absent",
                       blocks          |-> [b \in 1..depth |-> layer.obj],
                       downsample      |-> downsample]]

-----------------------------------------------------------------------------
(* FlashInternImage.__init__ *)

\* a resolution that accepts DCNv4 when either condition holds
ResolveCoreOp_Either(dv, core_op) ==
    IF dv = "DCNv4" \/ core_op = "DCNv4" THEN "DCNv4" ELSE "DCNv3"

\* lines 907-914
ResolveCoreOp(dv, core_op) ==
    IF dv = "DCNv4" /\ core_op = "DCNv4" THEN "DCNv4" ELSE "DCNv3"

\* int(x * cls_scale) for a positive int x and cls_scale = num/den
ScaleInt(x, scale) == (x * scale.num) \div scale.den

\* the level loop (lines 948-975): levels 0 .. i-1 built so far
RECURSIVE BuildLevels(_, _, _, _, _)
BuildLevels(dv, core_op, a, i, acc) ==
    IF i = Len(a.depths) \/ acc.raised # "none" THEN acc
    ELSE LET lv == InternImageBlockInit(dv, core_op, a.channels * Pow2(i),
                        a.depths[i + 1], a.groups[i + 1],
                        i < Len(a.depths) - 1, a.offset_scale, LayerOptions(a))
         IN  BuildLevels(dv, core_op, a, i + 1,
                [raised |-> lv.raised,
                 warned |-> acc.warned \cup lv.warned,
                 levels |-> IF lv.raised = "none" THEN Append(acc.levels, lv.obj)
                            ELSE acc.levels])

\* the classifier head built by the constructor (lines 977-1008)
InitHead(a, num_features) ==
    IF a.num_classes > 0
    THEN [kind |-> "Linear",
          in_features  |-> IF a.use_clip_projector THEN ClipEmbedDim
                           ELSE ScaleInt(num_features, a.cls_scale),
          out_features |-> a.num_classes]
    ELSE [kind |-> "Identity", in_features |-> 0, out_features |-> 0]

NoModel == [exists |-> FALSE]

FlashInternImageInit(dv, a) ==
    LET core_op      == ResolveCoreOp(dv, a.core_op)
        warned0      == IF core_op = "DCNv4" THEN {} ELSE {W_FALLBACK}
        num_levels   == Len(a.depths)
        num_features == a.channels * Pow2(num_levels - 1)
        built        == BuildLevels(dv, core_op, a, 0,
                            [raised |-> "none", warned |-> warned0, levels |-> <<>>])
    IN  IF built.raised # "none"
        THEN [raised |-> built.raised, warned |-> built.warned,
              core_op |-> core_op, obj |-> NoModel]
        ELSE [raised |-> "none", warned |-> built.warned, core_op |-> core_op,
              obj |-> [exists             |-> TRUE,
                       core_op            |-> core_op,
                       num_classes        |-> a.num_classes,
                       num_levels         |-> num_levels,
                       depths             |-> a.depths,
                       channels           |-> a.channels,
                       num_features       |-> num_features,
                       use_clip_projector |-> a.use_clip_projector,
                       cls_scale          |-> a.cls_scale,
                       out_indices        |-> a.out_indices,
                       \* nn.Module.__init__ (super().__init__(), line 906)
                       \* leaves the module in training mode
                       training           |-> TRUE,
                       \* the running statistics of the BatchNorm2d inside
                       \* conv_head (line 983)
                       conv_head_stats    |-> IF a.use_clip_projector THEN "absent"
                                              ELSE "initial",
                       levels             |-> built.levels,
                       \* output channels of conv_head (0: no conv_head)
                       conv_head_out      |-> IF a.use_clip_projector THEN 0
                                              ELSE ScaleInt(num_features, a.cls_scale),
                       head               |-> InitHead(a, num_features)]]

\* the signature's defaults (lines 879-905)
DefaultArgs ==
    [core_op |-> "DCNv4", channels |-> DefaultChannels,
     depths |-> <<3, 4, 18, 5>>, groups |-> <<3, 6, 12, 24>>,
     num_classes |-> DefaultNumClasses,
     offset_scale |-> [num |-> 1, den |-> 2],
     cls_scale |-> [num |-> 3, den |-> 2],
     use_clip_projector |-> FALSE,
     post_norm |-> FALSE,
     layer_scale |-> [given |-> FALSE],
     res_post_norm |-> FALSE,
     dw_kernel_size |-> DwNone,
     out_indices |-> <<0, 1, 2, 3>>]

-----------------------------------------------------------------------------
(* Forward passes, on shapes *)

\* output size of nn.Conv2d(kernel_size=3, stride=2, padding=1) along one axis
ConvOut(h) == (h + 2 * 1 - 3) \div 2 + 1

\* StemLayer.forward: (N, 3, H, W) -> (N, H', W', channels), two such convolutions
StemShape(H, W) == <<ConvOut(ConvOut(H)), ConvOut(ConvOut(W))>>

\* DownsampleLayer.forward: the new (H, W)
DownsampleShape(shape) == <<ConvOut(shape[1]), ConvOut(shape[2])>>

\* which branch InternImageBlock.forward takes for its blocks (line 826;
\* torch.jit.is_scripting() is False in eager execution)
BlockCheckpointed(level) == level.grad_checkpoint

\* InternImageBlock.forward for the levels i+1 .. num_levels, entered with the
\* token grid `shape`; one record per level: the grid it ran on (old_shape),
\* its width and the branch taken.  The blocks keep (N, H*W, C).
RECURSIVE RunLevels(_, _, _)
RunLevels(levels, i, shape) ==
    IF i > Len(levels) THEN <<>>
    ELSE LET lv  == levels[i]
             nxt == IF lv.downsample THEN DownsampleShape(shape) ELSE shape
         IN  <<[level |-> i - 1, old_shape |-> shape, channels |-> lv.channels,
                checkpointed |-> BlockCheckpointed(lv), shape |-> nxt]>>
             \o RunLevels(levels, i + 1, nxt)

\* The modules one pass applies, in order: one record per application, with
\* the level and the block it belongs to.
Ev(op, level, block) == [op |-> op, level |-> level, block |-> block]

\* a layer that runs its MLP branch before its DCN branch
InternImageLayer_forward_MlpFirst(layer, i, b) ==
    <<Ev("norm2", i, b), Ev("mlp", i, b), Ev("drop_path", i, b),
      Ev("norm1", i, b), Ev("dcn", i, b), Ev("drop_path", i, b)>>

\* InternImageLayer.forward (lines 704-732) for block b of level i: the two
\* residual branches of _inner_forward.  checkpoint.checkpoint runs
\* _inner_forward once in the forward pass, so with_cp changes nothing here.
InternImageLayer_forward(layer, i, b) ==
    IF ~layer.layer_scale
    THEN IF layer.post_norm
         THEN <<Ev("dcn", i, b), Ev("norm1", i, b), Ev("drop_path", i, b),
                Ev("mlp", i, b), Ev("norm2", i, b), Ev("drop_path", i, b)>>
         ELSE IF layer.res_post_norm
         THEN <<Ev("norm1", i, b), Ev("dcn", i, b), Ev("res_post_norm1", i, b),
                Ev("drop_path", i, b),
                Ev("norm2", i, b), Ev("mlp", i, b), Ev("res_post_norm2", i, b),
                Ev("drop_path", i, b)>>
         ELSE <<Ev("norm1", i, b), Ev("dcn", i, b), Ev("drop_path", i, b),
                Ev("norm2", i, b), Ev("mlp", i, b), Ev("drop_path", i, b)>>
    ELSE IF layer.post_norm
         THEN <<Ev("dcn", i, b), Ev("norm1", i, b), Ev("gamma1", i, b),
                Ev("drop_path", i, b),
                Ev("mlp", i, b), Ev("norm2", i, b), Ev("gamma2", i, b),
                Ev("drop_path", i, b)>>
         ELSE <<Ev("norm1", i, b), Ev("dcn", i, b), Ev("gamma1", i, b),
                Ev("drop_path", i, b),
                Ev("norm2", i, b), Ev("mlp", i, b), Ev("gamma2", i, b),
                Ev("drop_path", i, b)>>

\* the loop over self.blocks (lines 825-832), blocks b .. depth-1 of level i;
\* post_norm_block_ids is None unless level2_post_norm is set
RECURSIVE BlocksTrace(_, _, _)
BlocksTrace(level, i, b) ==
    IF b >= level.depth THEN <<>>
    ELSE InternImageLayer_forward(level.blocks[b + 1], i, b) \o BlocksTrace(level, i, b + 1)

\* InternImageBlock.forward (lines 823-842): the blocks, the level's norm
\* (center_feature_scale is False) and the downsample layer if there is one
InternImageBlock_forward(level, i) ==
    BlocksTrace(level, i, 0)
    \o (IF ~level.post_norm THEN <<Ev("norm", i, -1)>> ELSE <<>>)
    \o (IF level.downsample THEN <<Ev("downsample", i, -1)>> ELSE <<>>)

\* the loop over self.levels (lines 1089-1091 and 1104-1106), levels i .. last
RECURSIVE LevelsTrace(_, _)
LevelsTrace(levels, i) ==
    IF i >= Len(levels) THEN <<>>
    ELSE InternImageBlock_forward(levels[i + 1], i) \o LevelsTrace(levels, i + 1)

\* patch_embed and then the levels: the part that forward_features_no_clip_projector
\* and forward_features_seq_out share
BackboneTrace(m) == <<Ev("patch_embed", -1, -1)>> \o LevelsTrace(m.levels, 0)

\* the stages whose maps forward_features_seq_out appends (lines 1105-1109)
SeqOutStages(m) == [i \in 1..m.num_levels |-> i - 1]

\* forward_features_seq_out: one NCHW map per appended stage
forward_features_seq_out(m, N, H, W) ==
    LET run == RunLevels(m.levels, 1, StemShape(H, W))
        st  == SeqOutStages(m)
    IN  [k \in 1..Len(st) |->
            LET r == run[st[k] + 1]
            IN  [level |-> r.level,
                 shape |-> <<N, r.channels, r.old_shape[1], r.old_shape[2]>>]]

\* forward_features_no_clip_projector: conv_head output, NCHW
forward_features_no_clip_projector(m, N, H, W) ==
    LET run  == RunLevels(m.levels, 1, StemShape(H, W))
        last == run[Len(run)]
    IN  IF last.channels # m.num_features
        THEN [raised |-> "RuntimeError", shape |-> <<>>]
        \* BatchNorm2d in training mode refuses a single value per channel
        ELSE IF m.training /\ N * last.shape[1] * last.shape[2] = 1
        THEN [raised |-> "ValueError", shape |-> <<>>]
        ELSE [raised |-> "none",
              shape |-> <<N, m.conv_head_out, last.shape[1], last.shape[2]>>]

\* what a pass through self.conv_head leaves behind: in training mode its
\* BatchNorm2d counts the batch (before it looks at the batch size) and
\* updates its running statistics
ConvHeadRan(m, f) ==
    IF ~m.use_clip_projector /\ m.training /\ f.raised # "RuntimeError"
    THEN [m EXCEPT !.conv_head_stats = "updated"]
    ELSE m

\* x.permute(0, 3, 1, 2)
Permute0312(s) == <<s[1], s[4], s[2], s[3]>>

\* whether two sizes broadcast in an elementwise addition
Broadcasts(p, q) == p = q \/ p = 1 \/ q = 1
BroadcastDim(p, q) == IF p = 1 THEN q ELSE p

\* forward_clip_projector (lines 1112-1130)
forward_clip_projector(m, N, H, W) ==
    LET xs == forward_features_seq_out(m, N, H, W)
    IN  IF Len(xs) # 4 THEN [raised |-> "ValueError", shape |-> <<>>]
        ELSE LET x3 == Permute0312(xs[3].shape)
                 x4 == Permute0312(xs[4].shape)
             IN  IF x4[2] # m.num_features \/ x3[2] # m.num_features \div 2
                 THEN [raised |-> "RuntimeError", shape |-> <<>>]
                 ELSE LET y4 == <<N, PretrainEmbedDim,
                                  ClipStride * x4[3], ClipStride * x4[4]>>
                          y3 == <<N, PretrainEmbedDim, x3[3], x3[4]>>
                      IN  IF Broadcasts(y4[3], y3[3]) /\ Broadcasts(y4[4], y3[4])
                          THEN [raised |-> "none",
                                shape |-> <<N, PretrainEmbedDim,
                                            BroadcastDim(y4[3], y3[3]),
                                            BroadcastDim(y4[4], y3[4])>>]
                          ELSE [raised |-> "RuntimeError", shape |-> <<>>]

\* forward_features (lines 1132-1137)
forward_features(m, N, H, W) ==
    IF m.use_clip_projector THEN forward_clip_projector(m, N, H, W)
    ELSE forward_features_no_clip_projector(m, N, H, W)

\* the width of the vector that forward hands to self.head (lines 1141-1147):
\* clip_projector and fc_norm give clip_embed_dim, avgpool and flatten keep
\* the channels of conv_head
PooledWidth(m) == IF m.use_clip_projector THEN ClipEmbedDim ELSE m.conv_head_out

\* self.head(x) on x of shape (N, width)
HeadApply(head, N, width) ==
    IF head.kind = "Identity" THEN [raised |-> "none", shape |-> <<N, width>>]
    ELSE IF head.in_features = width
         THEN [raised |-> "none", shape |-> <<N, head.out_features>>]
         ELSE [raised |-> "RuntimeError", shape |-> <<>>]

\* forward (lines 1139-1149)
forward(m, N, H, W) ==
    LET f == forward_features(m, N, H, W)
    IN  IF f.raised # "none" THEN f
        ELSE HeadApply(m.head, N, PooledWidth(m))

-----------------------------------------------------------------------------
(* reset_classifier, set_grad_checkpointing *)

\* lines 1038-1041
ResetHead(m, num_classes) ==
    IF num_classes > 0
    THEN [kind |-> "Linear", in_features |-> m.num_features,
          out_features |-> num_classes]
    ELSE [kind |-> "Identity", in_features |-> 0, out_features |-> 0]

\* an assignment that also removes the level's downsample layer
SetLevelFlag_DropsDownsample(level, enable) ==
    [level EXCEPT !.grad_checkpointing = IF enable THEN "True" ELSE "False",
                  !.downsample = FALSE]

\* lines 1050-1053: the attribute the loop assigns on one level
SetLevelFlag(level, enable) ==
    [level EXCEPT !.grad_checkpointing = IF enable THEN "True" ELSE "False"]

-----------------------------------------------------------------------------
(* group_matcher, lr_decay_keywards *)

\* lines 1043-1048
group_matcher == [stem |-> "^patch_embed", blocks |-> "^levels\\.(\\d+)"]

\* lr_decay_keywards (lines 1055-1080): the value of idx when the loops reach
\* 'levels.<layer_num>.blocks.<block_num>.', the exponent of decay_ratio
LrIdx(depths, layer_num, block_num) ==
    LET after == [l \in 0..3 |-> IF l > layer_num THEN depths[l + 1] ELSE 0]
    IN  after[0] + after[1] + after[2] + after[3]
        + (depths[layer_num + 1] - block_num - 1)

\* the loops read self.depths[3], .., self.depths[0], and the later lines
\* read the entries of block 0 of levels 0..3
lr_decay_keywards(m) ==
    IF Len(m.depths) < 4 THEN [raised |-> "IndexError", lr_ratios |-> <<>>]
    ELSE IF \E l \in 1..4 : m.depths[l] = 0 THEN [raised |-> "KeyError", lr_ratios |-> <<>>]
    ELSE [raised |-> "none",
          lr_ratios |->
             [blocks |-> [l \in 0..3 |->
                            [b \in 0..(m.depths[l + 1] - 1) |-> LrIdx(m.depths, l, b)]],
              patch_embed |-> LrIdx(m.depths, 0, 0),
              downsample  |-> [l \in 0..2 |-> LrIdx(m.depths, l + 1, 0)],
              norm        |-> [l \in 0..2 |-> LrIdx(m.depths, l + 1, 0)]]]

-----------------------------------------------------------------------------
(* The registered variant constructors (lines 1354-1805) *)

\* each constructor's model_arg: the widths, depths and groups it fixes and
\* the keyword under which it passes its output stages, if any
Variants == {
    [name |-> "flash_intern_image_tiny",
     channels |-> 64, depths |-> <<4, 4, 18, 4>>, groups |-> <<4, 8, 16, 32>>,
     offset_scale |-> [num |-> 1, den |-> 1], indices_key |-> "none", indices |-> <<>>],
    [name |-> "flash_intern_image_small",
     channels |-> 80, depths |-> <<4, 4, 21, 4>>, groups |-> <<5, 10, 20, 40>>,
     offset_scale |-> [num |-> 1, den |-> 1], indices_key |-> "none", indices |-> <<>>],
    [name |-> "flash_intern_image_base",
     channels |-> 112, depths |-> <<4, 4, 21, 4>>, groups |-> <<7, 14, 28, 56>>,
     offset_scale |-> [num |-> 1, den |-> 2], indices_key |-> "none", indices |-> <<>>],
    [name |-> "flash_intern_image_large",
     channels |-> 160, depths |-> <<5, 5, 22, 5>>, groups |-> <<10, 20, 40, 80>>,
     offset_scale |-> [num |-> 2, den |-> 1], indices_key |-> "none", indices |-> <<>>],
    [name |-> "cascade_flash_intern_image_large",
     channels |-> 160, depths |-> <<5, 5, 22, 5>>, groups |-> <<10, 20, 40, 80>>,
     offset_scale |-> [num |-> 2, den |-> 1], indices_key |-> "out_indices", indices |-> <<0, 1, 2, 3>>],
    [name |-> "dino_4scale_flash_intern_image_tiny",
     channels |-> 64, depths |-> <<4, 4, 18, 4>>, groups |-> <<4, 8, 16, 32>>,
     offset_scale |-> [num |-> 1, den |-> 1], indices_key |-> "output_indices", indices |-> <<1, 2, 3>>],
    [name |-> "dino_4scale_flash_intern_image_small",
     channels |-> 80, depths |-> <<4, 4, 21, 4>>, groups |-> <<5, 10, 20, 40>>,
     offset_scale |-> [num |-> 1, den |-> 1], indices_key |-> "output_indices", indices |-> <<1, 2, 3>>],
    [name |-> "dino_4scale_flash_intern_image_base",
     channels |-> 112, depths |-> <<4, 4, 21, 4>>, groups |-> <<7, 14, 28, 56>>,
     offset_scale |-> [num |-> 1, den |-> 2], indices_key |-> "output_indices", indices |-> <<1, 2, 3>>],
    [name |-> "dino_4scale_flash_intern_image_large",
     channels |-> 160, depths |-> <<5, 5, 22, 5>>, groups |-> <<10, 20, 40, 80>>,
     offset_scale |-> [num |-> 2, den |-> 1], indices_key |-> "output_indices", indices |-> <<1, 2, 3>>],
    [name |-> "mask_rcnn_flash_intern_image_tiny",
     channels |-> 64, depths |-> <<4, 4, 18, 4>>, groups |-> <<4, 8, 16, 32>>,
     offset_scale |-> [num |-> 1, den |-> 1], indices_key |-> "output_indices", indices |-> <<0, 1, 2, 3>>],
    [name |-> "mask_rcnn_flash_intern_image_small",
     channels |-> 80, depths |-> <<4, 4, 21, 4>>, groups |-> <<5, 10, 20, 40>>,
     offset_scale |-> [num |-> 1, den |-> 1], indices_key |-> "output_indices", indices |-> <<0, 1, 2, 3>>],
    [name |-> "mask_rcnn_flash_intern_image_base",
     channels |-> 112, depths |-> <<4, 4, 21, 4>>, groups |-> <<7, 14, 28, 56>>,
     offset_scale |-> [num |-> 1, den |-> 2], indices_key |-> "output_indices", indices |-> <<0, 1, 2, 3>>],
    [name |-> "mask2former_flash_intern_image_tiny",
     channels |-> 64, depths |-> <<4, 4, 18, 4>>, groups |-> <<4, 8, 16, 32>>,
     offset_scale |-> [num |-> 1, den |-> 1], indices_key |-> "output_indices", indices |-> <<0, 1, 2, 3>>],
    [name |-> "mask2former_flash_intern_image_small",
     channels |-> 80, depths |-> <<4, 4, 21, 4>>, groups |-> <<5, 10, 20, 40>>,
     offset_scale |-> [num |-> 1, den |-> 1], indices_key |-> "output_indices", indices |-> <<0, 1, 2, 3>>],
    [name |-> "mask2former_flash_intern_image_base",
     channels |-> 112, depths |-> <<4, 4, 21, 4>>, groups |-> <<7, 14, 28, 56>>,
     offset_scale |-> [num |-> 1, den |-> 2], indices_key |-> "output_indices", indices |-> <<0, 1, 2, 3>>],
    [name |-> "mask2former_flash_intern_image_large",
     channels |-> 160, depths |-> <<5, 5, 22, 5>>, groups |-> <<10, 20, 40, 80>>,
     offset_scale |-> [num |-> 2, den |-> 1], indices_key |-> "output_indices", indices |-> <<0, 1, 2, 3>>],
    [name |-> "upernet_flash_intern_image_tiny",
     channels |-> 64, depths |-> <<4, 4, 18, 4>>, groups |-> <<4, 8, 16, 32>>,
     offset_scale |-> [num |-> 1, den |-> 1], indices_key |-> "output_indices", indices |-> <<0, 1, 2, 3>>],
    [name |-> "upernet_flash_intern_image_small",
     channels |-> 80, depths |-> <<4, 4, 21, 4>>, groups |-> <<5, 10, 20, 40>>,
     offset_scale |-> [num |-> 1, den |-> 1], indices_key |-> "output_indices", indices |-> <<0, 1, 2, 3>>],
    [name |-> "upernet_flash_intern_image_base",
     channels |-> 112, depths |-> <<4, 4, 21, 4>>, groups |-> <<7, 14, 28, 56>>,
     offset_scale |-> [num |-> 1, den |-> 2], indices_key |-> "output_indices", indices |-> <<0, 1, 2, 3>>],
    [name |-> "upernet_flash_intern_image_large",
     channels |-> 160, depths |-> <<5, 5, 22, 5>>, groups |-> <<10, 20, 40, 80>>,
     offset_scale |-> [num |-> 2, den |-> 1], indices_key |-> "output_indices", indices |-> <<0, 1, 2, 3>>]}

\* a gate that lets the request through without looking at dcn_version
check_pretrained_available_Ungated(dv, pretrained) ==
    [value |-> pretrained, warned |-> IF dv = "DCNv4" THEN {} ELSE {W_PRETRAINED}]

\* lines 1346-1351
check_pretrained_available(dv, pretrained) ==
    IF dv = "DCNv4" THEN [value |-> pretrained, warned |-> {}]
    ELSE [value |-> FALSE, warned |-> {W_PRETRAINED}]

\* dict(model_arg, **kwargs): what a variant hands to
\* _create_flash_intern_image; `user` is the caller's out_indices keyword
VariantKwargs(v, user) ==
    [core_op |-> "DCNv4", channels |-> v.channels, depths |-> v.depths,
     groups |-> v.groups, offset_scale |-> v.offset_scale,
     has_out_indices |-> user.given \/ v.indices_key = "out_indices",
     out_indices |-> IF user.given THEN user.value ELSE v.indices]

\* _create_flash_intern_image (lines 1332-1343): out_indices is popped from
\* the keywords into feature_cfg; the rest reaches FlashInternImage, whose
\* other parameters keep their defaults (unknown keywords fall into **kwargs)
CreateFeatureIndices(kw) ==
    IF kw.has_out_indices THEN kw.out_indices
    ELSE [i \in 1..Len(kw.depths) |-> i - 1]

\* a call that drops the constructor's groups
CreateModelArgs_DefaultGroups(kw) ==
    [DefaultArgs EXCEPT !.core_op = kw.core_op, !.channels = kw.channels,
                        !.depths = kw.depths, !.offset_scale = kw.offset_scale]

CreateModelArgs(kw) ==
    [DefaultArgs EXCEPT !.core_op = kw.core_op, !.channels = kw.channels,
                        !.depths = kw.depths, !.groups = kw.groups,
                        !.offset_scale = kw.offset_scale]

-----------------------------------------------------------------------------
(* Inputs the operations are driven with *)

Batches == 1..MaxBatch
\* (H, W) of the input image
ImageSizes == {<<1, 1>>, <<7, 224>>}
ClassCounts == 0..MaxClasses
CoreOps == {"DCNv4", "DCNv3"}
ClsScales == {[num |-> 3, den |-> 2], [num |-> 1, den |-> 1]}
OutIndices == {<<0, 1, 2, 3>>, <<1, 2, 3>>}

\* (channels, depths, groups): the documented defaults, a small four-level
\* network and a two-level one with a per-group width that is no power of two
DirectConfigs ==
    {[channels |-> DefaultChannels, depths |-> <<3, 4, 18, 5>>, groups |-> <<3, 6, 12, 24>>],
     [channels |-> 8, depths |-> <<1, 1, 2, 1>>, groups |-> <<2, 4, 4, 8>>],
     [channels |-> 12, depths |-> <<1, 2>>, groups |-> <<3, 4>>]}

LayerScales == {[given |-> FALSE], [given |-> TRUE, value |-> 1]}

\* every configuration with every head; the small four-level network with
\* other out_indices; the two-level one with every combination of the
\* layer options
DirectArgs ==
    {[DefaultArgs EXCEPT !.core_op = c, !.channels = g.channels, !.depths = g.depths,
                         !.groups = g.groups, !.num_classes = n, !.cls_scale = cs,
                         !.use_clip_projector = u] :
        c \in CoreOps, g \in DirectConfigs, n \in ClassCounts, cs \in ClsScales,
        u \in BOOLEAN}
    \cup {[DefaultArgs EXCEPT !.core_op = c, !.channels = 8, !.depths = <<1, 1, 2, 1>>,
                              !.groups = <<2, 4, 4, 8>>, !.out_indices = o] :
        c \in CoreOps, o \in OutIndices}
    \cup {[DefaultArgs EXCEPT !.core_op = "DCNv3", !.channels = 12, !.depths = <<1, 2>>,
                              !.groups = <<3, 4>>, !.post_norm = pn,
                              !.res_post_norm = rpn, !.layer_scale = ls,
                              !.dw_kernel_size = dw] :
        pn \in BOOLEAN, rpn \in BOOLEAN, ls \in LayerScales, dw \in {DwNone, DwSize(3)}}
    \cup {DefaultArgs}

UserOutIndices == {[given |-> FALSE, value |-> <<>>], [given |-> TRUE, value |-> <<1, 2, 3>>]}
\* the caller's out_indices keyword is exercised on one classification
\* constructor and on one detection constructor
UserOutIndicesFor(v) ==
    IF v.name \in {"flash_intern_image_tiny", "cascade_flash_intern_image_large"}
    THEN UserOutIndices
    ELSE {[given |-> FALSE, value |-> <<>>]}

NoResult == [op |-> "none"]
NoBuildCall == [called |-> FALSE]
NoDcn == [exists |-> FALSE]
NoFilt == [called |-> FALSE]

-----------------------------------------------------------------------------
(* Spec: the life of one FlashInternImage object *)

Fresh == ~model.exists /\ raised = "none" /\ ~build_call.called

Init ==
    /\ dcn_version \in {"DCNv4", "DCNv3"}
    /\ model = NoModel
    /\ warnings = {}
    /\ raised = "none"
    /\ result = NoResult
    /\ build_call = NoBuildCall
    /\ dcn = NoDcn
    /\ filt = NoFilt

\* FlashInternImage(**a)
Construct(a) ==
    /\ Fresh
    /\ LET c == FlashInternImageInit(dcn_version, a)
       IN  /\ model' = c.obj
           /\ warnings' = warnings \cup c.warned
           /\ raised' = c.raised
           /\ result' = [op |-> "__init__", args |-> a, core_op |-> c.core_op]
    /\ UNCHANGED <<dcn_version, build_call, dcn, filt>>

\* a registered constructor, e.g. flash_intern_image_tiny(pretrained, **kwargs);
\* build_model_with_cfg instantiates the class with the remaining keywords
VariantCall(v, pretrained, user) ==
    /\ Fresh
    /\ LET p  == check_pretrained_available(dcn_version, pretrained)
           kw == VariantKwargs(v, user)
           a  == CreateModelArgs(kw)
           c  == FlashInternImageInit(dcn_version, a)
       IN  /\ build_call' = [called |-> TRUE, variant |-> v.name,
                             requested |-> pretrained, pretrained |-> p.value,
                             out_indices |-> CreateFeatureIndices(kw)]
           /\ model' = c.obj
           /\ warnings' = warnings \cup p.warned \cup c.warned
           /\ raised' = c.raised
           /\ result' = [op |-> "__init__", args |-> a, core_op |-> c.core_op]
    /\ UNCHANGED <<dcn_version, dcn, filt>>

Forward(N, H, W) ==
    /\ model.exists
    /\ LET r == forward(model, N, H, W)
       IN  /\ raised' = r.raised
           /\ model' = ConvHeadRan(model, forward_features(model, N, H, W))
           /\ result' = [op |-> "forward", N |-> N, H |-> H, W |-> W, shape |-> r.shape,
                         checkpointed |-> [i \in 1..model.num_levels |->
                                              BlockCheckpointed(model.levels[i])]]
    /\ UNCHANGED <<dcn_version, warnings, build_call, dcn, filt>>

ForwardFeatures(N, H, W) ==
    /\ model.exists
    /\ LET r == forward_features(model, N, H, W)
       IN  /\ raised' = r.raised
           /\ model' = ConvHeadRan(model, r)
           /\ result' = [op |-> "forward_features", N |-> N, H |-> H, W |-> W,
                         shape |-> r.shape]
    /\ UNCHANGED <<dcn_version, warnings, build_call, dcn, filt>>

ForwardFeaturesSeqOut(N, H, W) ==
    /\ model.exists
    /\ raised' = "none"
    /\ result' = [op |-> "forward_features_seq_out", N |-> N, H |-> H, W |-> W,
                  seq_out |-> forward_features_seq_out(model, N, H, W)]
    /\ UNCHANGED <<dcn_version, model, warnings, build_call, dcn, filt>>

GetClassifier ==
    /\ model.exists
    /\ raised' = "none"
    /\ result' = [op |-> "get_classifier", head |-> model.head]
    /\ UNCHANGED <<dcn_version, model, warnings, build_call, dcn, filt>>

GroupMatcher ==
    /\ model.exists
    /\ raised' = "none"
    /\ result' = [op |-> "group_matcher", value |-> group_matcher]
    /\ UNCHANGED <<dcn_version, model, warnings, build_call, dcn, filt>>

LrDecayKeywards ==
    /\ model.exists
    /\ LET r == lr_decay_keywards(model)
       IN  /\ raised' = r.raised
           /\ result' = [op |-> "lr_decay_keywards", lr_ratios |-> r.lr_ratios]
    /\ UNCHANGED <<dcn_version, model, warnings, build_call, dcn, filt>>

ResetClassifier(n) ==
    /\ model.exists
    /\ model' = [model EXCEPT !.num_classes = n, !.head = ResetHead(model, n)]
    /\ raised' = "none"
    /\ result' = [op |-> "reset_classifier", n |-> n]
    /\ UNCHANGED <<dcn_version, warnings, build_call, dcn, filt>>

SetGradCheckpointing(enable) ==
    /\ model.exists
    /\ model' = [model EXCEPT !.levels =
                    [i \in 1..Len(model.levels) |-> SetLevelFlag(model.levels[i], enable)]]
    /\ raised' = "none"
    /\ result' = [op |-> "set_grad_checkpointing", enable |-> enable]
    /\ UNCHANGED <<dcn_version, warnings, build_call, dcn, filt>>

Next ==
    \/ \E a \in DirectArgs : Construct(a)
    \/ \E v \in Variants, p \in BOOLEAN : \E u \in UserOutIndicesFor(v) : VariantCall(v, p, u)
    \/ \E N \in Batches, hw \in ImageSizes : Forward(N, hw[1], hw[2])
    \/ \E N \in Batches, hw \in ImageSizes : ForwardFeaturesSeqOut(N, hw[1], hw[2])
    \/ \E N \in Batches, hw \in ImageSizes : ForwardFeatures(N, hw[1], hw[2])
    \/ GetClassifier
    \/ GroupMatcher
    \/ LrDecayKeywards
    \/ \E n \in ClassCounts : ResetClassifier(n)
    \/ \E e \in BOOLEAN : SetGradCheckpointing(e)

Spec == Init /\ [][Next]_vars

-----------------------------------------------------------------------------
(* dcnv3_core_pytorch (lines 96-193) *)

(* Tensors are functions on 0-based index tuples.  Coordinates are kept in    *)
(* quarter pixels: offsets are given in half pixels and offset_scale is 1, 2   *)
(* or 1/2, so every sampling location is a whole number of quarter pixels and  *)
(* the bilinear weights are whole sixteenths.  The output is kept in           *)
(* sixteenths as well (Out16).                                                 *)

RECURSIVE SumFn(_, _)
SumFn(f, k) == IF k < 0 THEN 0 ELSE f[k] + SumFn(f, k - 1)

\* F.pad(input, [0, 0, pad_h, pad_h, pad_w, pad_w]) on an NHWC tensor: the
\* pairs run from the last dimension backwards, so W is padded by pad_h and
\* H by pad_w
PaddedH(H, pad_h, pad_w) == H + 2 * pad_w
PaddedW(W, pad_h, pad_w) == W + 2 * pad_h

PadInput(inp, H, W, pad_h, pad_w, n, y, x, ch) ==
    IF y >= pad_w /\ y < pad_w + H /\ x >= pad_h /\ x < pad_h + W
    THEN inp[<<n, y - pad_w, x - pad_h, ch>>]
    ELSE 0

\* _get_reference_points: the size of the grid along one axis (lines 98-99)
RefOut(size, kernel, dilation, stride) ==
    (size - (dilation * (kernel - 1) + 1)) \div stride + 1

\* _get_reference_points: linspace point i along one axis, in quarter pixels,
\* before the division by the axis size (lines 105-107 and 113-115)
RefPoint4(i, kernel, dilation, stride) ==
    4 * ((dilation * (kernel - 1)) \div 2) + 2 + 4 * i * stride

\* a dilation grid whose taps start at 0 instead of being centred
DilationPoint4_Uncentred(a, kernel, dilation) == 4 * (a * dilation)

\* _generate_dilation_grids: linspace point a along one axis, in quarter
\* pixels, before the division by the axis size (lines 132-140)
DilationPoint4(a, kernel, dilation) ==
    4 * (-((dilation * (kernel - 1)) \div 2) + a * dilation)

\* _generate_dilation_grids: meshgrid(x over kernel_w, y over kernel_h) is
\* flattened row-major, so tap p has x index p // kernel_h and y index
\* p % kernel_h; the grid is repeated for every group (lines 144-147)
GridTapX(q, kernel_h, kernel_w) == (q % (kernel_h * kernel_w)) \div kernel_h
GridTapY(q, kernel_h, kernel_w) == (q % (kernel_h * kernel_w)) % kernel_h

\* value * offset_scale, exact for the scales used
Scaled(v, scale) == (v * scale.num) \div scale.den

\* sampling_locations (lines 172-173) followed by grid_sample's own
\* un-normalisation with align_corners=False: a location num/norm becomes the
\* pixel coordinate num * size / norm - 1/2
Unnormalize4(num4, norm, size) == (num4 * size) \div norm - 2

\* the geometry of one call
CoreGeom(c) ==
    LET H_in == PaddedH(c.H, c.pad_h, c.pad_w)
        W_in == PaddedW(c.W, c.pad_h, c.pad_w)
    IN  [H_in |-> H_in, W_in |-> W_in,
         refH |-> RefOut(H_in, c.kernel_h, c.dilation_h, c.stride_h),
         refW |-> RefOut(W_in, c.kernel_w, c.dilation_w, c.stride_w),
         P |-> c.kernel_h * c.kernel_w]

\* ref + grid * offset_scale + offset * offset_scale / spatial_norm broadcasts
\* the reference grid (1, refH, refW, 1, 2) against the offsets
\* (N, H_out, W_out, G*P*2), and the later views use the offsets' H_out, W_out
CoreShapesOK(c) ==
    LET g == CoreGeom(c)
    IN  /\ (g.refH = c.H_out \/ g.refH = 1)
        /\ (g.refW = c.W_out \/ g.refW = 1)

\* the pixel coordinate, in quarter pixels, that tap q of output position
\* (i, j) of image n samples; off is the offset tensor in half pixels
SampleX4(c, off, n, i, j, q) ==
    LET g  == CoreGeom(c)
        jr == IF g.refW = 1 THEN 0 ELSE j
    IN  Unnormalize4(
            RefPoint4(jr, c.kernel_w, c.dilation_w, c.stride_w)
            + Scaled(DilationPoint4(GridTapX(q, c.kernel_h, c.kernel_w),
                                    c.kernel_w, c.dilation_w), c.offset_scale)
            + Scaled(2 * off[<<n, i, j, 2 * q>>], c.offset_scale),
            g.W_in, g.W_in)

SampleY4(c, off, n, i, j, q) ==
    LET g  == CoreGeom(c)
        ir == IF g.refH = 1 THEN 0 ELSE i
    IN  Unnormalize4(
            RefPoint4(ir, c.kernel_h, c.dilation_h, c.stride_h)
            + Scaled(DilationPoint4(GridTapY(q, c.kernel_h, c.kernel_w),
                                    c.kernel_h, c.dilation_h), c.offset_scale)
            + Scaled(2 * off[<<n, i, j, 2 * q + 1>>], c.offset_scale),
            g.H_in, g.H_in)

\* input.view(N, H_in*W_in, G*Cg).transpose(1, 2).reshape(N*G, Cg, H_in, W_in)
\* (lines 178-179): plane ng holds group ng % G of image ng // G
InputPlane(c, inp, ng, ch, y, x) ==
    LET g == CoreGeom(c)
    IN  IF y < 0 \/ y >= g.H_in \/ x < 0 \/ x >= g.W_in THEN 0   \* padding_mode='zeros'
        ELSE PadInput(inp, c.H, c.W, c.pad_h, c.pad_w,
                      ng \div c.group, y, x, (ng % c.group) * c.group_channels + ch)

\* F.grid_sample(mode='bilinear'), in sixteenths
Bilinear16(c, inp, ng, ch, x4, y4) ==
    LET x0 == x4 \div 4
        y0 == y4 \div 4
        fx == x4 % 4
        fy == y4 % 4
    IN    (4 - fx) * (4 - fy) * InputPlane(c, inp, ng, ch, y0, x0)
        + fx * (4 - fy) * InputPlane(c, inp, ng, ch, y0, x0 + 1)
        + (4 - fx) * fy * InputPlane(c, inp, ng, ch, y0 + 1, x0)
        + fx * fy * InputPlane(c, inp, ng, ch, y0 + 1, x0 + 1)

\* (sampling_input_ * mask).sum(-1) for plane ng, channel ch, position l
\* (lines 181-190): the grid and the mask of plane ng are those of group
\* ng % G of image ng // G
PlaneOut16(c, inp, off, mask, ng, ch, l) ==
    LET g  == CoreGeom(c)
        n  == ng \div c.group
        gr == ng % c.group
        i  == l \div c.W_out
        j  == l % c.W_out
    IN  SumFn([pp \in 0..(g.P - 1) |->
                  mask[<<n, i, j, gr * g.P + pp>>]
                  * Bilinear16(c, inp, ng, ch,
                               SampleX4(c, off, n, i, j, gr * g.P + pp),
                               SampleY4(c, off, n, i, j, gr * g.P + pp))],
              g.P - 1)

CoreOutIndex(c) ==
    (0..(c.N - 1)) \X (0..(c.H_out - 1)) \X (0..(c.W_out - 1))
        \X (0..(c.group * c.group_channels - 1))

\* output.view(N, G*Cg, H_out*W_out).transpose(1, 2).reshape(N, H_out, W_out, -1)
dcnv3_core_pytorch(c, inp, off, mask) ==
    IF ~CoreShapesOK(c) THEN [raised |-> "RuntimeError", out16 |-> <<>>]
    ELSE [raised |-> "none",
          out16 |-> [t \in CoreOutIndex(c) |->
                        PlaneOut16(c, inp, off, mask,
                                   t[1] * c.group + t[4] \div c.group_channels,
                                   t[4] % c.group_channels,
                                   t[2] * c.W_out + t[3])]]

-----------------------------------------------------------------------------
(* DCNv3_pytorch.forward (lines 306-345), on shapes *)

\* self.dw_conv: Conv2d(kernel_size=dw_kernel_size, stride=1,
\* padding=(dw_kernel_size - 1) // 2), output size along one axis
DwConvOut(size, dw_kernel_size) ==
    size + 2 * ((dw_kernel_size - 1) \div 2) - dw_kernel_size + 1

\* the arguments forward hands to dcnv3_core_pytorch (lines 325-332): the
\* input is (N, H, W, C), the offsets and the mask have the rows and columns
\* of the depth-wise convolution's output
DCNv3CoreCall(d, N, H, W) ==
    [N |-> N, H |-> H, W |-> W,
     kernel_h |-> d.kernel_size, kernel_w |-> d.kernel_size,
     stride_h |-> d.stride, stride_w |-> d.stride,
     pad_h |-> d.pad, pad_w |-> d.pad,
     dilation_h |-> d.dilation, dilation_w |-> d.dilation,
     group |-> d.group, group_channels |-> d.group_channels,
     offset_scale |-> d.offset_scale,
     H_out |-> DwConvOut(H, d.dw_kernel_size),
     W_out |-> DwConvOut(W, d.dw_kernel_size)]

\* forward(input, shape=(H, W)) for an input of shape (N, H*W, C),
\* center_feature_scale=False.  The record holds the exception (or "none"),
\* the size of the reference grid, the rows and columns of the core
\* operator's output and the shape returned.
DCNv3_forward(d, N, H, W) ==
    LET L  == H * W
        c  == DCNv3CoreCall(d, N, H, W)
        g  == CoreGeom(c)
        P  == d.kernel_size * d.kernel_size
        no == [raised |-> "RuntimeError", ref |-> <<g.refH, g.refW>>,
               core |-> <<>>, shape |-> <<>>]
    IN  IF c.H_out < 1 \/ c.W_out < 1 THEN no             \* dw_conv: kernel larger than the input
        ELSE IF (c.H_out * c.W_out * P) % L # 0 THEN no   \* mask.reshape(N, H, W, group, -1)
        ELSE IF dcnv3_core_pytorch(c, <<>>, <<>>, <<>>).raised # "none" THEN no
        ELSE IF (c.H_out * c.W_out * d.channels) % L # 0 THEN no   \* x.reshape(N, L, -1)
        ELSE [raised |-> "none", ref |-> <<g.refH, g.refW>>,
              core |-> <<c.H_out, c.W_out>>,
              shape |-> <<N, L, (c.H_out * c.W_out * d.channels) \div L>>]

-----------------------------------------------------------------------------
(* checkpoint_filter_fn (lines 1152-1170) *)

\* Keys are sequences of characters, so that startswith and slicing are
\* computed as Python computes them.
P_BACKBONE == <<"b", "a", "c", "k", "b", "o", "n", "e", ".">>
P_MODULE == <<"m", "o", "d", "u", "l", "e", ".">>

StartsWith(k, p) == Len(k) >= Len(p) /\ SubSeq(k, 1, Len(p)) = p

\* k[n:]
DropChars(k, n) == SubSeq(k, n + 1, Len(k))

\* a dict is a sequence of items [k, v] with distinct keys, in insertion order
DictKeys(d) == {d[i].k : i \in 1..Len(d)}

\* d[k] = v: an existing key keeps its place, a new key is appended
DictSet(d, k, v) ==
    IF k \in DictKeys(d)
    THEN [i \in 1..Len(d) |-> IF d[i].k = k THEN [k |-> k, v |-> v] ELSE d[i]]
    ELSE Append(d, [k |-> k, v |-> v])

\* lines 1161-1165: the loop that removes a leading 'backbone.'
RECURSIVE StripBackbone(_, _)
StripBackbone(items, acc) ==
    IF items = <<>> THEN acc
    ELSE LET k == Head(items).k
             nk == IF StartsWith(k, P_BACKBONE) THEN DropChars(k, 9) ELSE k
         IN  StripBackbone(Tail(items), DictSet(acc, nk, Head(items).v))

\* line 1168: {k[7:]: v for k, v in state_dict.items()}
RECURSIVE DropModule(_, _)
DropModule(items, acc) ==
    IF items = <<>> THEN acc
    ELSE DropModule(Tail(items),
                    DictSet(acc, DropChars(Head(items).k, 7), Head(items).v))

\* lines 1167-1168: the test looks at the first key only
FirstKeyHasModule(d) == StartsWith(d[1].k, P_MODULE)

checkpoint_filter_fn(sd) ==
    IF ~sd.model.present /\ ~sd.state_dict.present
    THEN [raised |-> "ValueError", out |-> <<>>]
    ELSE LET inner == IF sd.model.present THEN sd.model.items ELSE sd.state_dict.items
             d == StripBackbone(inner, <<>>)
         IN  IF d = <<>>
             THEN [raised |-> "IndexError", out |-> <<>>]   \* list(...)[0] of no keys
             ELSE [raised |-> "none",
                   out |-> IF FirstKeyHasModule(d) THEN DropModule(d, <<>>) ELSE d]

\* Inputs: state-dict keys with and without the two prefixes
FilterKeys ==
    {P_BACKBONE \o P_MODULE \o <<"w">>,
     P_BACKBONE \o <<"w">>,
     P_MODULE \o <<"w">>,
     <<"w">>,
     <<"h", "e", "a", "d", ".", "w", "e", "i", "g", "h", "t">>,
     P_MODULE \o P_BACKBONE \o <<"w">>}

\* the mappings of at most MaxEntries items; the value of an item names the
\* mapping it belongs to and its position there
RECURSIVE KeySeqs(_)
KeySeqs(n) ==
    IF n = 0 THEN {<<>>}
    ELSE LET shorter == KeySeqs(n - 1)
         IN  shorter \cup
             {Append(ks, k) : ks \in {q \in shorter : Len(q) = n - 1}, k \in FilterKeys}

InnerDicts(tag) ==
    {[i \in 1..Len(ks) |-> [k |-> ks[i], v |-> <<tag, i>>]] :
        ks \in {q \in KeySeqs(MaxEntries) : \A i, j \in 1..Len(q) : i # j => q[i] # q[j]}}

Entry(tag) == {[present |-> FALSE, items |-> <<>>]} \cup
              {[present |-> TRUE, items |-> d] : d \in InnerDicts(tag)}

FilterInputs == [model : Entry("model"), state_dict : Entry("state_dict")]

-----------------------------------------------------------------------------
(* SpecFilter: one call of checkpoint_filter_fn *)

InitIdle ==
    /\ dcn_version \in {"DCNv4", "DCNv3"}
    /\ model = NoModel
    /\ warnings = {}
    /\ raised = "none"
    /\ result = NoResult
    /\ build_call = NoBuildCall
    /\ dcn = NoDcn
    /\ filt = NoFilt

Filter(sd) ==
    /\ ~filt.called
    /\ LET r == checkpoint_filter_fn(sd)
       IN  /\ filt' = [called |-> TRUE, input |-> sd, out |-> r.out]
           /\ raised' = r.raised
    /\ UNCHANGED <<dcn_version, model, warnings, result, build_call, dcn>>

NextFilter == \E sd \in FilterInputs : Filter(sd)

SpecFilter == InitIdle /\ [][NextFilter]_vars

-----------------------------------------------------------------------------
(* SpecDCN: constructing a DCNv3_pytorch module, calling dcnv3_core_pytorch *)

\* per-axis (kernel, stride, pad, dilation): the module's defaults, an even
\* kernel, a strided one, a dilated even one and a 1x1 kernel
AxisGeoms ==
    {[kernel |-> 3, stride |-> 1, pad |-> 1, dilation |-> 1],
     [kernel |-> 2, stride |-> 1, pad |-> 0, dilation |-> 1],
     [kernel |-> 3, stride |-> 2, pad |-> 1, dilation |-> 1],
     [kernel |-> 2, stride |-> 1, pad |-> 1, dilation |-> 2],
     [kernel |-> 1, stride |-> 1, pad |-> 0, dilation |-> 1]}

CoreSizes == {<<1, 1>>, <<2, 3>>, <<3, 2>>}
CoreGroups == {<<1, 1>>, <<2, 1>>, <<2, 2>>}          \* (group, group_channels)
OffsetScales == {[num |-> 1, den |-> 1], [num |-> 2, den |-> 1]}
OffsetKinds == {"zero", "nonzero"}

\* a call without the shape of the offsets
CoreCallBase(N, hw, gh, gw, gc, os) ==
    [N |-> N, H |-> hw[1], W |-> hw[2],
     kernel_h |-> gh.kernel, kernel_w |-> gw.kernel,
     stride_h |-> gh.stride, stride_w |-> gw.stride,
     pad_h |-> gh.pad, pad_w |-> gw.pad,
     dilation_h |-> gh.dilation, dilation_w |-> gw.dilation,
     group |-> gc[1], group_channels |-> gc[2], offset_scale |-> os,
     H_out |-> 0, W_out |-> 0]

\* the offsets and the mask have either the shape of the reference grid or
\* the shape of the unpadded input
CoreCalls ==
    {c \in UNION {
        LET b == CoreCallBase(N, hw, gh, gw, gc, os)
            g == CoreGeom(b)
        IN  {[b EXCEPT !.H_out = g.refH, !.W_out = g.refW],
             [b EXCEPT !.H_out = b.H, !.W_out = b.W]} :
        N \in Batches, hw \in CoreSizes, gh \in AxisGeoms, gw \in AxisGeoms,
        gc \in CoreGroups, os \in OffsetScales} :
     CoreGeom(c).refH >= 1 /\ CoreGeom(c).refW >= 1}

InputTensor(c) ==
    [t \in (0..(c.N - 1)) \X (0..(c.H - 1)) \X (0..(c.W - 1))
           \X (0..(c.group * c.group_channels - 1)) |->
        1 + ((2 * t[1] + 3 * t[2] + 5 * t[3] + 7 * t[4] + t[2] * t[3]) % 11)]

MaskTensor(c) ==
    [t \in (0..(c.N - 1)) \X (0..(c.H_out - 1)) \X (0..(c.W_out - 1))
           \X (0..(c.group * c.kernel_h * c.kernel_w - 1)) |->
        1 + ((t[1] + 2 * t[2] + 3 * t[3] + 5 * t[4] + t[2] * t[4]) % 7)]

\* offsets in half pixels
OffsetTensor(c, kind) ==
    [t \in (0..(c.N - 1)) \X (0..(c.H_out - 1)) \X (0..(c.W_out - 1))
           \X (0..(2 * c.group * c.kernel_h * c.kernel_w - 1)) |->
        IF kind = "zero" THEN 0 ELSE ((t[2] + t[3] + t[4]) % 3) - 1]

\* DCNv3_pytorch(channels=channels, group=group), the other arguments at
\* their defaults (kernel_size=3, stride=1, pad=1, dilation=1, offset_scale=1.0)
ConstructDCNv3(channels, group) ==
    /\ ~dcn.exists /\ result.op = "none"
    /\ LET r == DCNv3Init(channels, group, 3, DwNone, 1, 1, 1, [num |-> 1, den |-> 1])
       IN  /\ dcn' = r.obj
           /\ warnings' = warnings \cup r.warned
           /\ raised' = r.raised
    /\ result' = [op |-> "DCNv3_pytorch.__init__", channels |-> channels, group |-> group]
    /\ UNCHANGED <<dcn_version, model, build_call, filt>>

CallCore(c, kind) ==
    /\ ~dcn.exists /\ result.op = "none"
    /\ LET inp  == InputTensor(c)
           off  == OffsetTensor(c, kind)
           mask == MaskTensor(c)
           r    == dcnv3_core_pytorch(c, inp, off, mask)
       IN  /\ raised' = r.raised
           /\ result' = [op |-> "dcnv3_core_pytorch", call |-> c, input |-> inp,
                         offset |-> off, mask |-> mask, out16 |-> r.out16]
    /\ UNCHANGED <<dcn_version, model, warnings, build_call, dcn, filt>>

\* (kernel_size, stride, pad, dilation) of a module: those of AxisGeoms and
\* a 3x3 kernel without padding
ModuleGeoms == AxisGeoms \cup {[kernel |-> 3, stride |-> 1, pad |-> 0, dilation |-> 1]}
DwKernelSizes == {DwNone, DwSize(1), DwSize(2), DwSize(3)}
ModuleWidths == {<<4, 1>>, <<4, 2>>, <<6, 2>>}          \* (channels, group)
ForwardSizes == CoreSizes \cup {<<4, 4>>, <<1, 4>>}

\* DCNv3_pytorch(channels, kernel_size, dw_kernel_size, stride, pad, dilation, group)
ConstructDCNv3Geom(cg, g, dw) ==
    /\ ~dcn.exists /\ result.op = "none"
    /\ LET r == DCNv3Init(cg[1], cg[2], g.kernel, dw, g.stride, g.pad, g.dilation,
                          [num |-> 1, den |-> 1])
       IN  /\ dcn' = r.obj
           /\ warnings' = warnings \cup r.warned
           /\ raised' = r.raised
    /\ result' = [op |-> "DCNv3_pytorch.__init__", channels |-> cg[1], group |-> cg[2]]
    /\ UNCHANGED <<dcn_version, model, build_call, filt>>

\* module(input, shape=(hw[1], hw[2])) with input of shape (N, hw[1]*hw[2], channels)
ForwardDCNv3(N, hw) ==
    /\ dcn.exists
    /\ LET r == DCNv3_forward(dcn, N, hw[1], hw[2])
       IN  /\ raised' = r.raised
           /\ result' = [op |-> "DCNv3_pytorch.forward", N |-> N, H |-> hw[1], W |-> hw[2],
                         ref |-> r.ref, core |-> r.core, shape |-> r.shape]
    /\ UNCHANGED <<dcn_version, model, warnings, build_call, dcn, filt>>

NextDCN ==
    \/ \E channels \in 1..MaxChannels, group \in 1..MaxGroup : ConstructDCNv3(channels, group)
    \/ \E cg \in ModuleWidths, g \in ModuleGeoms, dw \in DwKernelSizes :
          ConstructDCNv3Geom(cg, g, dw)
    \/ \E N \in Batches, hw \in ForwardSizes : ForwardDCNv3(N, hw)
    \/ \E c \in CoreCalls, kind \in OffsetKinds : CallCore(c, kind)

SpecDCN == InitIdle /\ [][NextDCN]_vars

-----------------------------------------------------------------------------
(* Claims checked under Spec *)

\* (level, block) of every InternImageLayer of a model
AllLayers(m) ==
    UNION {{<<i, b>> : b \in 1..m.levels[i].depth} : i \in 1..Len(m.levels)}

\* C1: the constructor resolves core_op to 'DCNv4' exactly when the DCNv4
\* package was importable and 'DCNv4' was requested; otherwise core_op is
\* 'DCNv3' and the fallback warning has been emitted.  Every layer of a
\* constructed model holds a DCNv4 module iff the model's core_op is
\* 'DCNv4', and a DCNv3_pytorch module otherwise.
C1_CoreOpSelection ==
    /\ result.op = "__init__" =>
          /\ (result.core_op = "DCNv4") <=>
                (dcn_version = "DCNv4" /\ result.args.core_op = "DCNv4")
          /\ result.core_op # "DCNv4" =>
                (result.core_op = "DCNv3" /\ W_FALLBACK \in warnings)
          /\ model.exists => model.core_op = result.core_op
    /\ model.exists =>
          \A ib \in AllLayers(model) :
             LET kind == model.levels[ib[1]].blocks[ib[2]].dcn.kind
             IN  /\ (kind = "DCNv4") <=> (model.core_op = "DCNv4")
                 /\ kind # "DCNv4" => kind = "DCNv3_pytorch"

\* C1 witness: DCNv4 was requested but is not installed; the constructed
\* model fell back to DCNv3 and its layers hold DCNv3_pytorch modules
C1_Witness ==
    /\ result.op = "__init__" /\ model.exists
    /\ result.args.core_op = "DCNv4" /\ dcn_version = "DCNv3"
    /\ model.core_op = "DCNv3"
    /\ AllLayers(model) # {}
    /\ \A ib \in AllLayers(model) :
          model.levels[ib[1]].blocks[ib[2]].dcn.kind = "DCNv3_pytorch"

\* C2: a variant passes to build_model_with_cfg the caller's pretrained flag
\* when DCNv4 is installed, and False, after the warning, when it is not
C2_PretrainedGating ==
    build_call.called =>
        /\ dcn_version = "DCNv4" => build_call.pretrained = build_call.requested
        /\ dcn_version # "DCNv4" =>
              (build_call.pretrained = FALSE /\ W_PRETRAINED \in warnings)

\* C2 witness: pretrained=True was asked for on the DCNv3 fallback
C2_Witness ==
    /\ build_call.called /\ dcn_version = "DCNv3"
    /\ build_call.requested = TRUE /\ build_call.pretrained = FALSE

\* C4: without the clip projector, forward returns (N, num_classes) when
\* num_classes > 0 and (N, int(num_features * cls_scale)) when num_classes
\* is 0, with num_features = channels * 2^(len(depths) - 1)
C4_ForwardShape ==
    (result.op = "forward" /\ ~model.use_clip_projector) =>
        /\ raised = "none"
        /\ result.shape =
              IF model.num_classes > 0 THEN <<result.N, model.num_classes>>
              ELSE <<result.N,
                     (model.channels * Pow2(Len(model.depths) - 1) * model.cls_scale.num)
                        \div model.cls_scale.den>>

\* C4 holds of every model whose head has the width forward feeds it, which
\* is every model as constructed
C4_HoldsWhenHeadFits ==
    (/\ result.op = "forward" /\ ~model.use_clip_projector
     /\ raised # "ValueError"      \* BatchNorm2d got more than one value per channel
     /\ model.head.kind = "Linear" => model.head.in_features = PooledWidth(model)) =>
        /\ raised = "none"
        /\ result.shape = IF model.num_classes > 0
                          THEN <<result.N, model.num_classes>>
                          ELSE <<result.N, PooledWidth(model)>>

\* C5: forward_features_seq_out returns the maps of exactly the stages in
\* the model's out_indices, in that order
C5_SeqOutFollowsOutIndices ==
    result.op = "forward_features_seq_out" =>
        /\ Len(result.seq_out) = Len(model.out_indices)
        /\ \A k \in 1..Len(result.seq_out) :
              k <= Len(model.out_indices) =>
                 result.seq_out[k].level = model.out_indices[k]

\* C6: after reset_classifier(n) num_classes is n, get_classifier returns
\* the model's head, the head is Identity for n = 0 and for n > 0 a linear
\* layer with n outputs whose input width is the width forward feeds it
C6_ResetClassifierUsable ==
    /\ (result.op = "reset_classifier" /\ model.exists) =>
          /\ model.num_classes = result.n
          /\ result.n = 0 => model.head.kind = "Identity"
          /\ result.n > 0 =>
                /\ model.head.kind = "Linear"
                /\ model.head.out_features = result.n
                /\ model.head.in_features = PooledWidth(model)
    /\ result.op = "get_classifier" => result.head = model.head

\* C7: a forward pass runs every level through the checkpointed branch when
\* the last set_grad_checkpointing call enabled it, and through the plain
\* branch when the last call disabled it
C7_GradCheckpointingTakesEffect ==
    result.op = "forward" =>
        \A i \in 1..Len(model.levels) :
           /\ model.levels[i].grad_checkpointing = "True" => result.checkpointed[i]
           /\ model.levels[i].grad_checkpointing = "False" => ~result.checkpointed[i]

\* C8: with the default arguments the model is constructible on the DCNv3
\* fallback path
C8_DefaultsConstructible ==
    (result.op = "__init__" /\ result.args = DefaultArgs /\ result.core_op = "DCNv3") =>
        (raised = "none" /\ model.exists)

-----------------------------------------------------------------------------
(* Claims checked under SpecFilter *)

\* C3: checkpoint_filter_fn raises ValueError iff the checkpoint has neither
\* a 'model' nor a 'state_dict' key; in every other case, an empty inner
\* mapping included, it returns a mapping without raising, taken from
\* 'model' when both keys are present
C3_FilterRaisesOnlyOnUnknownFormat ==
    filt.called =>
        LET neither == ~filt.input.model.present /\ ~filt.input.state_dict.present
        IN  /\ (raised = "ValueError") <=> neither
            /\ ~neither =>
                  /\ raised = "none"
                  /\ \A i \in 1..Len(filt.out) :
                        filt.out[i].v[1] =
                           IF filt.input.model.present THEN "model" ELSE "state_dict"

-----------------------------------------------------------------------------
(* Claims checked under SpecDCN *)

IsPowerOfTwo(n) == \E k \in 0..n : n = Pow2(k)

\* C9: DCNv3_pytorch(channels, group) raises ValueError exactly when group
\* does not divide channels; a per-group width that is no power of two only
\* produces the warning, and the module is built with
\* group_channels = channels // group
C9_DCNv3ValidatesGrouping ==
    result.op = "DCNv3_pytorch.__init__" =>
        LET divides == \E k \in 1..result.channels : k * result.group = result.channels
        IN  /\ (raised = "ValueError") <=> ~divides
            /\ divides =>
                  /\ raised = "none"
                  /\ dcn.exists
                  /\ \E k \in 1..result.channels :
                        k * result.group = result.channels /\ dcn.group_channels = k
                  /\ ~IsPowerOfTwo(dcn.group_channels) => W_POW2 \in warnings

\* C9 witness: group divides channels, the per-group width 3 is no power of
\* two, the warning was given and the module exists
C9_Witness ==
    /\ result.op = "DCNv3_pytorch.__init__"
    /\ result.channels = 12 /\ result.group = 4
    /\ raised = "none" /\ dcn.exists /\ dcn.group_channels = 3
    /\ W_POW2 \in warnings

ZeroOffsets(off) == \A t \in DOMAIN off : off[t] = 0

\* the padded input of the last call, as F.pad lays it out
Padded(r, n, y, x, ch) ==
    PadInput(r.input, r.call.H, r.call.W, r.call.pad_h, r.call.pad_w, n, y, x, ch)

\* the grouped, mask-weighted window sum of C10 at output index t
WindowSum(r, t) ==
    LET c  == r.call
        g  == t[4] \div c.group_channels
        kh == c.kernel_h
        kw == c.kernel_w
    IN  SumFn([jx \in 0..(kw - 1) |->
                  SumFn([jy \in 0..(kh - 1) |->
                            r.mask[<<t[1], t[2], t[3], g * kh * kw + jx * kh + jy>>]
                            * Padded(r, t[1], t[2] * c.stride_h + jy * c.dilation_h,
                                     t[3] * c.stride_w + jx * c.dilation_w, t[4])],
                        kh - 1)],
              kw - 1)

\* a call whose offsets and mask have the shape of the reference grid
OnReferenceGrid(c) == c.H_out = CoreGeom(c).refH /\ c.W_out = CoreGeom(c).refW

RegularGridCall ==
    /\ result.op = "dcnv3_core_pytorch"
    /\ ZeroOffsets(result.offset)
    /\ result.call.offset_scale = [num |-> 1, den |-> 1]
    /\ OnReferenceGrid(result.call)

\* every sampling location of the last call is an integer pixel of the
\* padded input and every output entry is the window sum
OnGridAndWindowSum ==
    LET c == result.call
        g == CoreGeom(c)
    IN  \A t \in CoreOutIndex(c) :
           /\ \A q \in 0..(c.group * g.P - 1) :
                 LET x4 == SampleX4(c, result.offset, t[1], t[2], t[3], q)
                     y4 == SampleY4(c, result.offset, t[1], t[2], t[3], q)
                 IN  /\ x4 % 4 = 0 /\ y4 % 4 = 0
                     /\ x4 \div 4 \in 0..(g.W_in - 1)
                     /\ y4 \div 4 \in 0..(g.H_in - 1)
           /\ result.out16[t] = 16 * WindowSum(result, t)

LayerConfiguration(d) ==
    /\ d.kernel_size = 3 /\ d.stride = 1 /\ d.pad = 1 /\ d.dilation = 1
    /\ d.dw_kernel_size = 3

\* (H + 2*pad - dilation*(kernel-1) - 1) // stride + 1
ConvRows(d, size) ==
    (size + 2 * d.pad - d.dilation * (d.kernel_size - 1) - 1) \div d.stride + 1

\* C11: DCNv3_pytorch.forward on an input (N, H*W, C) with shape=(H, W): in
\* the configuration of InternImageLayer the reference grid has exactly
\* H x W positions, as the offsets and the mask have, and the output is
\* (N, L, C); for every configuration whose convolution output is not empty
\* the call returns and the number of output rows (columns) is
\* (H + 2*pad - dilation*(kernel-1) - 1) // stride + 1
C11_DCNv3ForwardShape ==
    (result.op = "DCNv3_pytorch.forward") =>
        /\ LayerConfiguration(dcn) =>
              /\ raised = "none"
              /\ result.ref = <<result.H, result.W>>
              /\ result.core = result.ref
              /\ result.shape = <<result.N, result.H * result.W, dcn.channels>>
        /\ (ConvRows(dcn, result.H) >= 1 /\ ConvRows(dcn, result.W) >= 1) =>
              /\ raised = "none"
              /\ result.core = <<ConvRows(dcn, result.H), ConvRows(dcn, result.W)>>

\* C11, the part about the configuration of InternImageLayer alone
C11_LayerConfigurationKeepsShape ==
    (result.op = "DCNv3_pytorch.forward" /\ LayerConfiguration(dcn)) =>
        /\ raised = "none"
        /\ result.ref = <<result.H, result.W>>
        /\ result.core = result.ref
        /\ result.shape = <<result.N, result.H * result.W, dcn.channels>>

\* C11, the reference grid alone: it has ConvRows x ConvRows positions
C11_ReferenceGridRows ==
    (result.op = "DCNv3_pytorch.forward") =>
        result.ref = <<ConvRows(dcn, result.H), ConvRows(dcn, result.W)>>

-----------------------------------------------------------------------------
(* Claims about the order of a pass, checked under Spec *)

\* the pass that the last operation ran through the backbone
RanBackbone == model.exists /\ result.op \in {"forward", "forward_features_seq_out"}

\* the DCN, MLP and downsample applications of a trace, in order
IsCoreEvent(e) == e.op \in {"dcn", "mlp", "downsample"}
CoreEvents(t) == SelectSeq(t, IsCoreEvent)

RECURSIVE SumTo(_, _)
SumTo(depths, k) == IF k = 0 THEN 0 ELSE depths[k] + SumTo(depths, k - 1)

\* where the claim puts the events of level i (0-based): after the events of
\* the levels before it and their downsamplings
LevelStart(depths, i) == 2 * SumTo(depths, i) + i

\* C12: in one pass the levels run in index order, inside level i the blocks
\* run in order 0..depths[i]-1, each applying the DCN operator once and then
\* the MLP once; the downsample of level i comes after all its blocks and
\* before level i+1; so there are sum(depths) DCN applications and
\* num_levels-1 downsamplings, none after the last level
C12_FixedExecutionSequence ==
    RanBackbone =>
        LET t  == CoreEvents(BackboneTrace(model))
            d  == model.depths
            nl == model.num_levels
        IN  /\ Len(t) = 2 * SumTo(d, nl) + (nl - 1)
            /\ \A i \in 0..(nl - 1) :
                  /\ \A b \in 0..(d[i + 1] - 1) :
                        /\ t[LevelStart(d, i) + 2 * b + 1] = Ev("dcn", i, b)
                        /\ t[LevelStart(d, i) + 2 * b + 2] = Ev("mlp", i, b)
                  /\ i < nl - 1 =>
                        t[LevelStart(d, i) + 2 * d[i + 1] + 1] = Ev("downsample", i, -1)
            /\ Cardinality({k \in 1..Len(t) : t[k].op = "dcn"}) = SumTo(d, nl)
            /\ Cardinality({k \in 1..Len(t) : t[k].op = "downsample"}) = nl - 1

\* C12 witness: a forward pass through the tiny variant's four levels of
\* depths 4, 4, 18, 4: 30 DCN applications and 3 downsamplings
C12_Witness ==
    /\ RanBackbone /\ result.op = "forward"
    /\ model.depths = <<4, 4, 18, 4>>
    /\ LET t == CoreEvents(BackboneTrace(model))
       IN  /\ Cardinality({k \in 1..Len(t) : t[k].op = "dcn"}) = 30
           /\ Cardinality({k \in 1..Len(t) : t[k].op = "downsample"}) = 3
           /\ t[Len(t)] = Ev("mlp", 3, 3)

-----------------------------------------------------------------------------
(* Claims about what the operations change, checked under Spec *)

\* the configuration of a model
FixedFields(m) == <<m.core_op, m.channels, m.depths, m.num_levels, m.num_features>>

\* the levels without the flag that set_grad_checkpointing assigns
LevelStructure(m) ==
    [i \in 1..Len(m.levels) |-> [m.levels[i] EXCEPT !.grad_checkpointing = "any"]]

\* a model without the fields an operation is allowed to change
ExceptHead(m) == [m EXCEPT !.num_classes = 0, !.head = "any"]
ExceptFlags(m) == [m EXCEPT !.levels = LevelStructure(m)]
ExceptStats(m) == [m EXCEPT !.conv_head_stats = "any"]

ReadOnlyOps == {"forward_features_seq_out", "get_classifier", "group_matcher",
                "lr_decay_keywards"}

\* what every step on an existing model keeps
KeepsConfiguration ==
    /\ dcn_version' = dcn_version
    /\ model.exists =>
          /\ model'.exists
          /\ FixedFields(model') = FixedFields(model)
          /\ LevelStructure(model') = LevelStructure(model)
          /\ result'.op = "reset_classifier" => ExceptHead(model') = ExceptHead(model)
          /\ result'.op = "set_grad_checkpointing" => ExceptFlags(model') = ExceptFlags(model)
          /\ result'.op \in ReadOnlyOps => model' = model

-----------------------------------------------------------------------------
(* Claims about the rewritten keys, checked under SpecFilter *)

\* the key the claim expects: a leading 'backbone.' removed, then a leading
\* 'module.' removed
WithoutPrefix(k, p) ==
    IF Len(k) >= Len(p) /\ SubSeq(k, 1, Len(p)) = p
    THEN SubSeq(k, Len(p) + 1, Len(k)) ELSE k
ExpectedKey(k) == WithoutPrefix(WithoutPrefix(k, P_BACKBONE), P_MODULE)

\* the mapping that checkpoint_filter_fn read
FilterInner ==
    IF filt.input.model.present THEN filt.input.model.items
    ELSE filt.input.state_dict.items

\* C14: every output key is its input key without a leading 'backbone.' and
\* then without a leading 'module.'; a key with neither prefix is unchanged;
\* no output key begins with either prefix; values and the number of
\* entries are preserved
C14_KeyRewriting ==
    (filt.called /\ raised = "none") =>
        /\ Len(filt.out) = Len(FilterInner)
        /\ \A i \in 1..Len(filt.out) :
              i <= Len(FilterInner) =>
                 /\ filt.out[i].v = FilterInner[i].v
                 /\ filt.out[i].k = ExpectedKey(FilterInner[i].k)
        /\ \A i \in 1..Len(filt.out) :
              /\ ~StartsWith(filt.out[i].k, P_BACKBONE)
              /\ ~StartsWith(filt.out[i].k, P_MODULE)

\* C14, the keys that carry neither prefix: they come out unchanged
C14_UnprefixedKeyKept ==
    (filt.called /\ raised = "none") =>
        \A i \in 1..Len(FilterInner) :
            (~StartsWith(FilterInner[i].k, P_BACKBONE) /\ ~StartsWith(FilterInner[i].k, P_MODULE)) =>
                \E j \in 1..Len(filt.out) :
                    filt.out[j].k = FilterInner[i].k /\ filt.out[j].v = FilterInner[i].v

\* C14 for a single entry: the claimed key and the value come out
C14_SingleEntryRewritten ==
    (filt.called /\ raised = "none" /\ Len(FilterInner) = 1) =>
        /\ Len(filt.out) = 1
        /\ filt.out[1].v = FilterInner[1].v
        /\ filt.out[1].k = ExpectedKey(FilterInner[1].k)

-----------------------------------------------------------------------------
(* Claims about the layer options and the variants, checked under Spec *)

\* the application that follows the first application of `op` in block b of
\* level i in a trace
NextAfter(t, op, i, b) ==
    LET k == CHOOSE k \in 1..Len(t) : t[k] = Ev(op, i, b)
    IN  IF k < Len(t) THEN t[k + 1].op ELSE "end"

OpsOfBlock(t, i, b) == {t[k].op : k \in {j \in 1..Len(t) : t[j].level = i /\ t[j].block = b}}

\* C15: a layer built with res_post_norm=True and post_norm=False applies
\* res_post_norm1 to the output of the DCN branch and res_post_norm2 to the
\* output of the MLP branch, whatever layer_scale is; with post_norm=True
\* norm1 follows the DCN operator and the res_post_norm layers are not applied
C15_ResPostNormApplied ==
    RanBackbone =>
        LET t == BackboneTrace(model)
        IN  \A ib \in AllLayers(model) :
              LET layer == model.levels[ib[1]].blocks[ib[2]]
                  i     == ib[1] - 1
                  b     == ib[2] - 1
              IN  /\ (layer.res_post_norm /\ ~layer.post_norm) =>
                        /\ NextAfter(t, "dcn", i, b) = "res_post_norm1"
                        /\ NextAfter(t, "mlp", i, b) = "res_post_norm2"
                  /\ layer.post_norm =>
                        /\ NextAfter(t, "dcn", i, b) = "norm1"
                        /\ NextAfter(t, "mlp", i, b) = "norm2"
                        /\ OpsOfBlock(t, i, b) \cap {"res_post_norm1", "res_post_norm2"} = {}

\* C15 without a layer scale
C15_HoldsWithoutLayerScale ==
    RanBackbone =>
        LET t == BackboneTrace(model)
        IN  \A ib \in AllLayers(model) :
              LET layer == model.levels[ib[1]].blocks[ib[2]]
                  i     == ib[1] - 1
                  b     == ib[2] - 1
              IN  (layer.res_post_norm /\ ~layer.post_norm /\ ~layer.layer_scale) =>
                        /\ NextAfter(t, "dcn", i, b) = "res_post_norm1"
                        /\ NextAfter(t, "mlp", i, b) = "res_post_norm2"

\* C16: every registered constructor builds levels whose width
\* channels * 2^i is a multiple of groups[i] with 16 channels per group, so
\* no DCNv3 constructor raises and none warns about a power of two
C16_VariantsWellGrouped ==
    build_call.called =>
        /\ result.op = "__init__" => raised = "none"
        /\ model.exists
        /\ W_POW2 \notin warnings
        /\ model.num_levels = 4
        /\ \A i \in 1..model.num_levels :
              LET lv == model.levels[i]
              IN  /\ lv.channels = model.channels * Pow2(i - 1)
                  /\ \A b \in 1..lv.depth :
                        /\ lv.blocks[b].groups * 16 = lv.channels
                        /\ lv.blocks[b].dcn.group * 16 = lv.channels

\* C16 witness: the base variant built on the fallback path, whose last
\* level has 896 channels in 56 groups of 16
C16_Witness ==
    /\ build_call.called /\ build_call.variant = "flash_intern_image_base"
    /\ dcn_version = "DCNv3" /\ result.op = "__init__" /\ raised = "none"
    /\ model.exists /\ model.channels = 112
    /\ model.levels[4].channels = 896
    /\ model.levels[4].blocks[1].dcn.kind = "DCNv3_pytorch"
    /\ model.levels[4].blocks[1].dcn.group = 56
    /\ model.levels[4].blocks[1].dcn.group_channels = 16
=============================================================================
